---- MODULE Spec2Model ----
(***************************************************************************)
(* UavsarScene (uavsar_pytools/uavsar_scene.py): the scene orchestrator.   *)
(* Two scene objects share one work_dir on one file system.  Strings are   *)
(* sequences of tokens ("/" and "." are tokens of their own), so that      *)
(* basename, dirname, join, split and the `in' substring test are computed *)
(* as Python computes them.  One action is one call of a public method; a  *)
(* raised exception ends the call and keeps the effects made before it.    *)
(***************************************************************************)
EXTENDS Integers, Sequences, FiniteSets, TLC

VARIABLES scn, fs, last, ncalls

vars == <<scn, fs, last, ncalls>>

\* The largest number of method calls made on one scene object.
MaxCalls == 3

-----------------------------------------------------------------------------
(* Python values *)

\* Python's None, as a value comparable with every string and list.
None == <<"None">>

\* `not x' for x a string, a list or None.
Falsy(x) == x = None \/ x = <<>>

\* The empty dict.
EmptyDict == [k \in {} |-> None]

\* d[k] = v
DictSet(d, k, v) == [x \in DOMAIN d \cup {k} |-> IF x = k THEN v ELSE d[x]]

Range(s) == {s[i] : i \in 1..Len(s)}

\* `sub in s' for strings: sub is a contiguous part of s.
Contains(s, sub) ==
    \E i \in 1..(Len(s) - Len(sub) + 1) : SubSeq(s, i, i + Len(sub) - 1) = sub

\* Index of the last / first occurrence of token t in s, 0 when absent.
LastIdx(s, t) ==
    IF \E i \in 1..Len(s) : s[i] = t
    THEN CHOOSE i \in 1..Len(s) : s[i] = t /\ \A j \in (i+1)..Len(s) : s[j] # t
    ELSE 0

FirstIdx(s, t) ==
    IF \E i \in 1..Len(s) : s[i] = t
    THEN CHOOSE i \in 1..Len(s) : s[i] = t /\ \A j \in 1..(i-1) : s[j] # t
    ELSE 0

\* s.rstrip('/')
RECURSIVE RStrip(_)
RStrip(s) ==
    IF s # <<>> /\ s[Len(s)] = "/" THEN RStrip(SubSeq(s, 1, Len(s) - 1)) ELSE s

\* os.path.basename
basename(p) == SubSeq(p, LastIdx(p, "/") + 1, Len(p))

\* os.path.dirname: the head up to the last '/', trailing slashes stripped
\* unless the head is all slashes.
dirname(p) ==
    LET head == SubSeq(p, 1, LastIdx(p, "/"))
    IN  IF head # <<>> /\ RStrip(head) # <<>> THEN RStrip(head) ELSE head

\* os.path.join of two / three components.
join(a, b) ==
    IF b # <<>> /\ b[1] = "/" THEN b
    ELSE IF a = <<>> \/ a[Len(a)] = "/" THEN a \o b
    ELSE a \o <<"/">> \o b

join3(a, b, c) == join(join(a, b), c)

\* s.split('.')[0] and s.split('.')[-1]
SplitFirst(s) ==
    IF FirstIdx(s, ".") = 0 THEN s ELSE SubSeq(s, 1, FirstIdx(s, ".") - 1)

SplitLast(s) == SubSeq(s, LastIdx(s, ".") + 1, Len(s))

\* s.split('.')[-2]: IndexError (None here) when s holds no '.'.
SplitPenult(s) ==
    IF LastIdx(s, ".") = 0 THEN None
    ELSE SplitLast(SubSeq(s, 1, LastIdx(s, ".") - 1))

\* os.path.expanduser: a leading "~" becomes the (absolute) home directory.
ExpandUser(p) ==
    IF p # <<>> /\ p[1] = "~" THEN <<"/", "home">> \o Tail(p) ELSE p

\* str.upper on one polarization string.
Upper(t) ==
    CASE t = "hh" -> "HH"
      [] t = "hv" -> "HV"
      [] t = "vh" -> "VH"
      [] t = "vv" -> "VV"
      [] t = "xx" -> "XX"
      [] OTHER -> t

-----------------------------------------------------------------------------
(* The file system: the set of existing paths, files and directories,      *)
(* each without a trailing separator.                                      *)

Norm(p) == IF RStrip(p) = <<>> THEN p ELSE RStrip(p)

\* os.path.exists
Exists(f, p) == Norm(p) \in f

\* p and every directory above it.
Ancestors(p) ==
    {SubSeq(Norm(p), 1, i - 1) :
        i \in {j \in 2..(Len(Norm(p)) + 1) : j = Len(Norm(p)) + 1 \/ Norm(p)[j] = "/"}}

\* os.makedirs
MakeDirs(f, p) == f \cup Ancestors(p)

IsPrefix(p, q) == Len(p) <= Len(q) /\ SubSeq(q, 1, Len(p)) = p

\* The paths at or below directory p.
Tree(f, p) ==
    {q \in f : q = Norm(p) \/ IsPrefix(Norm(p) \o <<"/">>, q)}

\* shutil.rmtree
RmTree(f, p) == f \ Tree(f, p)

-----------------------------------------------------------------------------
(* What one call did: directories made, collaborator calls, paths removed, *)
(* rasters overwritten, warnings logged, summary files written, arrays     *)
(* displayed.                                                              *)

Log0 ==
    [made |-> {}, dl |-> <<>>, unz |-> <<>>, conv |-> <<>>, removed |-> {},
     over |-> {}, warn |-> <<>>, csv |-> <<>>, shown |-> <<>>,
     steps |-> <<>>]

\* The state a method runs in: the object, the file system, the exception
\* raised so far ("ok": none) and the log of the call.
World(self, f) == [self |-> self, fs |-> f, err |-> "ok", log |-> Log0]

Raise(w, e) == [w EXCEPT !.err = e]

Warn(w, msg) == [w EXCEPT !.log.warn = Append(@, msg)]

\* Method m, called from another method, returned: the log keeps the order.
Returned(w, m) ==
    IF w.err = "ok" THEN [w EXCEPT !.log.steps = Append(@, m)] ELSE w

\* if not os.path.exists(d): os.makedirs(d)
EnsureDir(w, d) ==
    IF Exists(w.fs, d) THEN w
    ELSE [w EXCEPT !.fs = MakeDirs(@, d),
                   !.log.made = @ \cup (MakeDirs(w.fs, d) \ w.fs)]

-----------------------------------------------------------------------------
(* The collaborators, from their contracts.                                *)

\* download_zip(url, out_dir) -> local zip path; the zip is written there.
download_zip(w, url, out_dir) ==
    LET zp == join(out_dir, basename(url))
    IN  [w  |-> [w EXCEPT !.fs = @ \cup {zp},
                          !.log.dl = Append(@, [url |-> url, dir |-> out_dir])],
         ret |-> zp]

\* The members of an archive a polarization filter lets through.
Members(arch, pols) ==
    IF Falsy(pols) THEN arch
    ELSE SelectSeq(arch, LAMBDA n : \E i \in 1..Len(pols) : Contains(n, <<pols[i]>>))

\* unzip(in_dir, out_dir, pols) -> extracted paths; fails when in_dir names
\* no existing zip.
unzip(w, in_dir, out_dir, pols, arch) ==
    LET w1  == [w EXCEPT !.log.unz =
                   Append(@, [src |-> in_dir, dir |-> out_dir, pols |-> pols])]
        mem == Members(arch, pols)
        ret == [i \in 1..Len(mem) |-> join(out_dir, mem[i])]
    IN  IF in_dir = None THEN [w |-> Raise(w1, "TypeError"), ret |-> None]
        ELSE IF ~(in_dir \in w.fs /\ SplitLast(in_dir) = <<"zip">>)
        THEN [w |-> Raise(w1, "FileNotFoundError"), ret |-> None]
        ELSE [w |-> [w1 EXCEPT !.fs = @ \cup Range(ret)], ret |-> ret]

\* A binary file whose size is not what its annotation declares.
HHhgt == <<"HH", ".", "hgt", ".", "grd">>

\* The file names the converter cannot read.
Corrupt == {HHhgt}

\* grd_tiff_convert(in_fp, out_dir, ann_fp, overwrite) ->
\* (desc, array, type, out_fp); the raster is written to out_dir.  A failed
\* conversion writes nothing.
grd_tiff_convert(w, in_fp, out_dir, ann_fp, overwrite) ==
    LET out_fp == join(out_dir, basename(in_fp) \o <<".", "tiff">>)
        w1 == [w EXCEPT !.log.conv =
                  Append(@, [f |-> in_fp, ann |-> ann_fp, out |-> out_fp])]
        w2 == [w1 EXCEPT !.fs = MakeDirs(@, out_dir) \cup {out_fp},
                         !.log.over = @ \cup ({out_fp} \cap w.fs)]
    IN  IF in_fp \notin w.fs \/ ann_fp \notin w.fs
        THEN [w |-> Raise(w1, "FileNotFoundError")]
        ELSE IF basename(in_fp) \in Corrupt
        THEN [w |-> Raise(w1, "SizeMismatchError")]
        ELSE IF out_fp \in w.fs /\ ~overwrite
        THEN [w |-> Raise(w1, "FileExistsError")]
        ELSE [w |-> w2, desc |-> [ann |-> ann_fp], array |-> [src |-> in_fp],
              type |-> SplitPenult(basename(in_fp)), out_fp |-> out_fp]

-----------------------------------------------------------------------------
(* UavsarScene                                                             *)

Scenes == {"A", "B"}

\* The polarizations, in the order binary_to_tiffs walks them.
POLS == <<"VV", "VH", "HV", "HH">>

\* No object: the constructor has not run, or raised.
NoScene(st) ==
    [status |-> st, url |-> None, pair_name |-> None, work_dir |-> None,
     clean |-> FALSE, clean_given |-> FALSE, pols_given |-> None,
     low_ram |-> FALSE,
     zipped_fp |-> None, ann_fp |-> None, binary_fps |-> <<>>,
     images |-> EmptyDict, tmp_dir |-> None, pols |-> None, out_dir |-> None]

\* The default of the constructor's clean parameter.
CleanDefault == TRUE

\* init, storing the caller's list as given: checked upper-cased, kept raw.
init_raw_pols(url, work_dir, cl, pols, low_ram) ==
    LET up == [i \in 1..Len(pols) |-> Upper(pols[i])]
        self == [NoScene("ok") EXCEPT
                    !.url = url,
                    !.pair_name = SplitFirst(basename(url)),
                    !.work_dir = ExpandUser(work_dir),
                    !.clean = IF cl.given THEN cl.val ELSE CleanDefault,
                    !.clean_given = cl.given,
                    !.pols_given = pols,
                    !.low_ram = low_ram,
                    !.pols = pols]
    IN  IF ~Falsy(pols) /\ ~(Range(up) \subseteq Range(POLS))
        THEN NoScene("ValueError") ELSE self

\* __init__(url, work_dir, clean, pols, low_ram); cl.given tells whether the
\* caller passed clean at all.  clean_given and pols_given keep the caller's
\* arguments beside the attributes the constructor sets.
init(url, work_dir, cl, pols, low_ram) ==
    LET up == [i \in 1..Len(pols) |-> Upper(pols[i])]
        self == [NoScene("ok") EXCEPT
                    !.url = url,
                    !.pair_name = SplitFirst(basename(url)),
                    !.work_dir = ExpandUser(work_dir),
                    !.clean = IF cl.given THEN cl.val ELSE CleanDefault,
                    !.clean_given = cl.given,
                    !.pols_given = pols,
                    !.low_ram = low_ram]
    IN  IF ~Falsy(pols)
        THEN IF Range(up) \subseteq Range(POLS)
             THEN [self EXCEPT !.pols = up]
             ELSE NoScene("ValueError")
        ELSE [self EXCEPT !.pols = pols]

\* The default of download's sub_dir.
SubDirDefault == <<"tmp", "/">>

\* download, not keeping the path the collaborator returned.
download_drops_zip(w, sub_dir) ==
    LET out_dir == join3(w.self.work_dir, sub_dir, w.self.pair_name)
        w1 == EnsureDir([w EXCEPT !.self.tmp_dir = out_dir], out_dir)
        d  == download_zip(w1, w.self.url, out_dir)
    IN  IF SplitLast(w.self.url) = <<"zip">>
        THEN d.w
        ELSE Warn(w1, "UavsarScene for zip files")

\* download(sub_dir)
download(w, sub_dir) ==
    LET out_dir == join3(w.self.work_dir, sub_dir, w.self.pair_name)
        w1 == EnsureDir([w EXCEPT !.self.tmp_dir = out_dir], out_dir)
        d  == download_zip(w1, w.self.url, out_dir)
    IN  IF SplitLast(w.self.url) = <<"zip">>
        THEN [d.w EXCEPT !.self.zipped_fp = d.ret]
        ELSE Warn(w1, "UavsarScene for zip files")

\* unzip(in_dir, sub_dir = 'bin_imgs/'); arch is what the zip holds.
scene_unzip(w, in_dir, arch) ==
    LET w1 == IF Falsy(in_dir) /\ Falsy(w.self.zipped_fp)
              THEN Warn(w, "No known zip file") ELSE w
        in1 == IF Falsy(in_dir) /\ ~Falsy(w.self.zipped_fp)
               THEN w.self.zipped_fp ELSE in_dir
        out_dir == join(w.self.tmp_dir, <<"bin_imgs", "/">>)
        w2 == EnsureDir(w1, out_dir)
        u  == unzip(w2, in1, out_dir, w.self.pols, arch)
    IN  IF w.self.tmp_dir = None THEN Raise(w1, "TypeError")
        ELSE IF u.w.err # "ok" THEN u.w
        ELSE [u.w EXCEPT !.self.binary_fps = u.ret]

IsAnn(a) == Contains(a, <<".", "ann">>)

\* ann_dic, taking for each polarization the last annotation path.
AnnDic_takes_last(ann_fps) ==
    LET ann_pol(pol) == SelectSeq(ann_fps, LAMBDA fp : Contains(fp, <<pol>>))
    IN  [pol \in {q \in Range(POLS) : ann_pol(q) # <<>>} |->
            ann_pol(pol)[Len(ann_pol(pol))]]

\* ann_dic: for each polarization, the first annotation path it occurs in.
AnnDic(ann_fps) ==
    LET ann_pol(pol) == SelectSeq(ann_fps, LAMBDA fp : Contains(fp, <<pol>>))
    IN  [pol \in {q \in Range(POLS) : ann_pol(q) # <<>>} |-> ann_pol(pol)[1]]

\* Entry, keeping the array whatever low_ram says.
Entry_keeps_array(low_ram, c) ==
    [description |-> c.desc, array |-> c.array, out_fp |-> c.out_fp,
     type |-> c.type]

\* The entry binary_to_tiffs stores for one conversion c.
Entry(low_ram, c) ==
    IF low_ram
    THEN [description |-> c.desc, out_fp |-> c.out_fp, type |-> c.type]
    ELSE [description |-> c.desc, array |-> c.array, out_fp |-> c.out_fp,
          type |-> c.type]

\* The overwrite argument binary_to_tiffs passes to the converter.
Overwrite == TRUE

\* The loop over binary_img_fps.  ann_fp is the local variable, carried from
\* one file to the next; env.bound tells whether ann_dic and ann_fps were
\* assigned (they are not when the caller passed ann_fp).
RECURSIVE ConvertLoop(_, _, _, _)
ConvertLoop(w, files, ann_fp, env) ==
    IF files = <<>> \/ w.err # "ok" THEN w
    ELSE
    LET f == Head(files)
        f_pols == SelectSeq(POLS, LAMBDA pol : Contains(basename(f), <<pol>>))
        useDic == DOMAIN env.ann_dic # {}
        a1 == IF useDic THEN env.ann_dic[f_pols[1]] ELSE ann_fp
        a2 == IF Falsy(a1) THEN env.ann_fps[1] ELSE a1
        c  == grd_tiff_convert(w, f, env.out_dir, a2, Overwrite)
    IN  IF ~env.bound THEN Raise(w, "UnboundLocalError")
        ELSE IF useDic /\ f_pols = <<>> THEN Raise(w, "IndexError")
        ELSE IF useDic /\ f_pols[1] \notin DOMAIN env.ann_dic THEN Raise(w, "KeyError")
        ELSE IF Falsy(a1) /\ env.ann_fps = <<>> THEN Raise(w, "IndexError")
        ELSE IF c.w.err # "ok" THEN c.w
        ELSE ConvertLoop(
                 [c.w EXCEPT !.self.images =
                      DictSet(@, c.type, Entry(w.self.low_ram, c))],
                 Tail(files), a2, env)

\* if self.clean: shutil.rmtree(dirname(self.tmp_dir))
Clean(w) ==
    IF ~w.self.clean THEN w
    ELSE IF w.self.tmp_dir = None THEN Raise(w, "TypeError")
    ELSE IF ~Exists(w.fs, dirname(w.self.tmp_dir)) THEN Raise(w, "FileNotFoundError")
    ELSE [w EXCEPT !.fs = RmTree(@, dirname(w.self.tmp_dir)),
                   !.log.removed = @ \cup Tree(w.fs, dirname(w.self.tmp_dir))]

\* os.listdir(d) lists these names, in an order of its own.
ListDir(f, d) == {basename(q) : q \in {r \in f : r # Norm(d) /\ dirname(r) = Norm(d)}}

\* binary_to_tiffs, cleaning up also when the loop raised.
binary_to_tiffs_cleans_on_error(w, binary_dir, ann_fp, listing) ==
    LET w1 == IF Falsy(binary_dir) THEN w
              ELSE IF ~Exists(w.fs, binary_dir) THEN Raise(w, "FileNotFoundError")
              ELSE [w EXCEPT !.self.binary_fps = listing]
        out_dir == join(w.self.work_dir, w.self.pair_name)
        w2 == EnsureDir(w1, out_dir)
        bound == Falsy(ann_fp)
        ann_fps == SelectSeq(w1.self.binary_fps, IsAnn)
        w3 == IF bound /\ ann_fps = <<>>
              THEN Warn(w2, "No annotation file found") ELSE w2
        env == [bound |-> bound, ann_fps |-> ann_fps,
                ann_dic |-> IF bound THEN AnnDic(ann_fps) ELSE EmptyDict,
                out_dir |-> out_dir]
        binary_img_fps == SelectSeq(w1.self.binary_fps, LAMBDA x : ~IsAnn(x))
        w4 == ConvertLoop(w3, binary_img_fps, ann_fp, env)
    IN  IF w1.err # "ok" THEN w1
        ELSE IF w4.err # "ok" THEN [Clean(w4) EXCEPT !.err = w4.err]
        ELSE Clean([w4 EXCEPT !.self.out_dir = out_dir])

\* binary_to_tiffs(binary_dir, ann_fp); listing is what os.listdir returns.
binary_to_tiffs(w, binary_dir, ann_fp, listing) ==
    LET w1 == IF Falsy(binary_dir) THEN w
              ELSE IF ~Exists(w.fs, binary_dir) THEN Raise(w, "FileNotFoundError")
              ELSE [w EXCEPT !.self.binary_fps = listing]
        out_dir == join(w.self.work_dir, w.self.pair_name)
        w2 == EnsureDir(w1, out_dir)
        bound == Falsy(ann_fp)
        ann_fps == SelectSeq(w1.self.binary_fps, IsAnn)
        w3 == IF bound /\ ann_fps = <<>>
              THEN Warn(w2, "No annotation file found") ELSE w2
        env == [bound |-> bound, ann_fps |-> ann_fps,
                ann_dic |-> IF bound THEN AnnDic(ann_fps) ELSE EmptyDict,
                out_dir |-> out_dir]
        binary_img_fps == SelectSeq(w1.self.binary_fps, LAMBDA x : ~IsAnn(x))
        w4 == ConvertLoop(w3, binary_img_fps, ann_fp, env)
    IN  IF w1.err # "ok" THEN w1
        ELSE IF w4.err # "ok" THEN w4
        ELSE Clean([w4 EXCEPT !.self.out_dir = out_dir])

\* url_to_tiffs(), its three calls: download(), unzip(), binary_to_tiffs().
url_to_tiffs_calls(w, arch) ==
    LET w1 == Returned(download(w, SubDirDefault), "download")
        w2 == Returned(scene_unzip(w1, None, arch), "unzip")
        w3 == Returned(binary_to_tiffs(w2, None, None, <<>>), "binary_to_tiffs")
    IN  IF w1.err # "ok" THEN w1
        ELSE IF w2.err # "ok" THEN w2
        ELSE w3

\* url_to_tiffs(); pick is the key of the entry random.choice draws.
url_to_tiffs(w, arch, pick) ==
    LET w3 == url_to_tiffs_calls(w, arch)
        csv == join(w3.self.out_dir, w3.self.pair_name \o <<".", "csv">>)
    IN  IF w3.err # "ok" THEN w3
        ELSE IF DOMAIN w3.self.images = {} THEN Raise(w3, "IndexError")
        ELSE IF ~Exists(w3.fs, w3.self.out_dir) THEN Raise(w3, "OSError")
        ELSE [w3 EXCEPT !.fs = @ \cup {csv},
                        !.log.csv = Append(@, [fp |-> csv,
                                    desc |-> w3.self.images[pick].description])]

\* show(i)
show(w, i) ==
    IF i \notin DOMAIN w.self.images THEN w
    ELSE IF "array" \notin DOMAIN w.self.images[i] THEN Raise(w, "KeyError")
    ELSE [w EXCEPT !.log.shown = Append(@, w.self.images[i].array)]

-----------------------------------------------------------------------------
(* The callers' inputs.                                                    *)

\* Scene urls: a zip whose pair name carries a polarization, a plain zip,
\* and a single image.
UrlA == <<"u", "/", "pA", "HH", ".", "zip">>
UrlB == <<"u", "/", "pB", ".", "zip">>
UrlImg == <<"u", "/", "pC", ".", "grd">>

WorkDirArg == <<"~", "/", "wd">>

CleanArgs ==
    {[given |-> FALSE, val |-> FALSE], [given |-> TRUE, val |-> FALSE],
     [given |-> TRUE, val |-> TRUE]}

PolsArgs == {None, <<>>, <<"hh">>, <<"VV", "hh">>, <<"hv", "xx">>}

\* File names inside the archives.
HHann == <<"HH", ".", "ann">>
VVann == <<"VV", ".", "ann">>
HHunw == <<"HH", ".", "unw", ".", "grd">>
VVunw == <<"VV", ".", "unw", ".", "grd">>
HHcor == <<"HH", ".", "cor", ".", "grd">>

\* What a scene zip may hold: one polarization with two products; two
\* polarizations of one product; a polarization without its annotation
\* file; no annotation file at all; a product the converter cannot read.
Archives ==
    {<<HHann, HHunw, HHcor>>, <<VVann, HHann, HHunw, VVunw>>,
     <<HHann, HHunw, VVunw>>, <<VVunw>>, <<HHann, HHunw, HHhgt>>}

Types == {<<"unw">>, <<"cor">>}

\* A directory of binary files that exists apart from any scene.
ExtDir == <<"data">>
ExtFiles == {ExtDir, join(ExtDir, HHann), join(ExtDir, HHunw)}

SubDirs == {<<"tmp", "/">>, <<>>}

\* The orders os.listdir may list a directory in.
Listings(f, d) ==
    {l \in [1..Cardinality(ListDir(f, d)) -> ListDir(f, d)] : Range(l) = ListDir(f, d)}

-----------------------------------------------------------------------------
(* The state machine: one action per call.                                 *)

Init ==
    /\ scn = [s \in Scenes |-> NoScene("none")]
    /\ fs = ExtFiles
    /\ last = [scene |-> "A", op |-> "none", args |-> <<>>, err |-> "ok",
               log |-> Log0, pre |-> [self |-> NoScene("none"), fs |-> ExtFiles]]
    /\ ncalls = [s \in Scenes |-> 0]

Construct(s, url, cl, pols, low_ram) ==
    /\ scn[s].status = "none"
    /\ scn' = [scn EXCEPT ![s] = init(url, WorkDirArg, cl, pols, low_ram)]
    /\ last' = [scene |-> s, op |-> "init",
                args |-> [url |-> url, clean |-> cl, pols |-> pols, low_ram |-> low_ram],
                err |-> IF scn'[s].status = "ok" THEN "ok" ELSE scn'[s].status,
                log |-> Log0, pre |-> [self |-> scn[s], fs |-> fs]]
    /\ UNCHANGED <<fs, ncalls>>

\* A method call on scene s that ended in world w.  last keeps the call: its
\* arguments, the exception it raised, its log, and the object and file
\* system it started from.
Call(s, op, args, w) ==
    /\ scn' = [scn EXCEPT ![s] = w.self]
    /\ fs' = w.fs
    /\ last' = [scene |-> s, op |-> op, args |-> args, err |-> w.err, log |-> w.log,
                pre |-> [self |-> scn[s], fs |-> fs]]
    /\ ncalls' = [ncalls EXCEPT ![s] = @ + 1]

Callable(s) == scn[s].status = "ok" /\ ncalls[s] < MaxCalls

Download(s, sub_dir) ==
    /\ Callable(s)
    /\ Call(s, "download", [sub_dir |-> sub_dir],
            download(World(scn[s], fs), sub_dir))

Unzip(s, in_dir, arch) ==
    /\ Callable(s)
    /\ Call(s, "unzip", [in_dir |-> in_dir],
            scene_unzip(World(scn[s], fs), in_dir, arch))

BinaryToTiffs(s, binary_dir, ann_fp) ==
    /\ Callable(s)
    /\ \E listing \in (IF Falsy(binary_dir) \/ ~Exists(fs, binary_dir)
                       THEN {<<>>} ELSE Listings(fs, binary_dir)) :
          Call(s, "binary_to_tiffs", [binary_dir |-> binary_dir, ann_fp |-> ann_fp],
               binary_to_tiffs(World(scn[s], fs), binary_dir, ann_fp, listing))

\* What random.choice may draw from a dict's values, by key.
Choices(d) == IF DOMAIN d = {} THEN {None} ELSE DOMAIN d

UrlToTiffs(s, arch) ==
    /\ Callable(s)
    /\ \E pick \in Choices(url_to_tiffs_calls(World(scn[s], fs), arch).self.images) :
          Call(s, "url_to_tiffs", <<>>,
               url_to_tiffs(World(scn[s], fs), arch, pick))

Show(s, i) ==
    /\ Callable(s)
    /\ Call(s, "show", [i |-> i], show(World(scn[s], fs), i))

\* One scene, built with any arguments; its methods called with their
\* default arguments, in any order.
Next ==
    \E s \in {"A"} :
        \/ \E url \in {UrlA, UrlB, UrlImg}, cl \in CleanArgs, pols \in PolsArgs,
              low_ram \in BOOLEAN : Construct(s, url, cl, pols, low_ram)
        \/ Download(s, SubDirDefault)
        \/ \E arch \in Archives : Unzip(s, None, arch)
        \/ BinaryToTiffs(s, None, None)
        \/ \E arch \in Archives : UrlToTiffs(s, arch)
        \/ \E i \in Types \cup {<<"hgt">>} : Show(s, i)

Spec == Init /\ [][Next]_vars

\* Two scenes with different pair names on one work_dir, their calls
\* interleaved in any order.
NextShared ==
    \E s \in Scenes :
        \/ \E cl \in CleanArgs :
              Construct(s, IF s = "A" THEN UrlA ELSE UrlB, cl, None, FALSE)
        \/ Download(s, SubDirDefault)
        \/ Unzip(s, None, <<HHann, HHunw, HHcor>>)
        \/ BinaryToTiffs(s, None, None)
        \/ UrlToTiffs(s, <<HHann, HHunw, HHcor>>)

SpecShared == Init /\ [][NextShared]_vars

\* The binary_dir and ann_fp arguments a caller gives binary_to_tiffs: none,
\* or the directory of binary files and its annotation file.
BinaryDirArgs == {None, ExtDir}
AnnFpArgs == {None, join(ExtDir, HHann)}

\* One scene on a zip url; download() and binary_to_tiffs() called with
\* explicit arguments, in any order.
NextArgs ==
    \E s \in {"A"} :
        \/ \E cl \in CleanArgs : Construct(s, UrlB, cl, None, FALSE)
        \/ \E sub_dir \in SubDirs : Download(s, sub_dir)
        \/ \E arch \in {<<HHann, HHunw, HHcor>>, <<VVann, HHann, HHunw, VVunw>>} :
              Unzip(s, None, arch)
        \/ \E binary_dir \in BinaryDirArgs, ann_fp \in AnnFpArgs :
              BinaryToTiffs(s, binary_dir, ann_fp)

SpecArgs == Init /\ [][NextArgs]_vars

-----------------------------------------------------------------------------
(* Properties.  Each speaks of the call last made: last.pre is the object  *)
(* and the file system the call started from, scn[last.scene] and fs what  *)
(* it left.                                                                *)

Self == scn[last.scene]

\* A call made no change on disk and reached no collaborator.
NoDiskIO ==
    /\ fs = last.pre.fs
    /\ last.log.made = {} /\ last.log.removed = {}
    /\ last.log.conv = <<>> /\ last.log.unz = <<>> /\ last.log.dl = <<>>

\* C1: binary_to_tiffs() with no binary_dir on a scene whose binary_fps is
\* empty raises an error and does no disk I/O: no output directory is made,
\* no conversion is invoked, nothing is deleted.
C1_ConvertBeforeUnzipRaises ==
    (/\ last.op = "binary_to_tiffs"
     /\ Falsy(last.args.binary_dir)
     /\ last.pre.self.binary_fps = <<>>)
    => (last.err # "ok" /\ NoDiskIO)

\* C2: unzip() with no in_dir on a scene whose zipped_fp is None raises an
\* error, does not reach the unzip collaborator, makes no directory and
\* leaves binary_fps as it was.
C2_UnzipBeforeDownloadRaises ==
    (/\ last.op = "unzip"
     /\ Falsy(last.args.in_dir)
     /\ last.pre.self.zipped_fp = None)
    => (/\ last.err # "ok"
        /\ last.log.unz = <<>>
        /\ last.log.made = {}
        /\ Self.binary_fps = last.pre.self.binary_fps)

\* The downloaded zip and the unzipped binary files a scene object records.
OwnFiles(o) == {o.zipped_fp} \cup Range(o.binary_fps)

\* C3: two scenes with different pair names on one work_dir are independent:
\* no call on one scene removes the other scene's downloaded zip or unzipped
\* binary files.
C3_ScenesIndependent ==
    \A o \in Scenes \ {last.scene} :
        OwnFiles(scn[o]) \cap last.pre.fs \subseteq fs

\* The polarizations a name carries.
PolsOf(name) == {pol \in Range(POLS) : Contains(name, <<pol>>)}

Anns(fps) == {a \in Range(fps) : IsAnn(basename(a))}

Imgs(fps) == {f \in Range(fps) : ~IsAnn(basename(f))}

\* A binary file with an annotation file of its own polarization.
Annotated(f, fps) ==
    \E a \in Anns(fps) : PolsOf(basename(f)) \cap PolsOf(basename(a)) # {}

\* binary_to_tiffs() with neither argument, on binary files that all exist.
PlainConversion ==
    /\ last.op = "binary_to_tiffs"
    /\ Falsy(last.args.binary_dir) /\ Falsy(last.args.ann_fp)
    /\ Range(last.pre.self.binary_fps) \subseteq last.pre.fs

\* The conversions of the last call, as a set.
Convs == Range(last.log.conv)

\* File f was converted and its result is an entry of images.
Recorded(f) ==
    \E c \in Convs :
        /\ c.f = f
        /\ \E k \in DOMAIN Self.images : Self.images[k].out_fp = c.out

\* C4: when one polarization's binary files have no annotation file while
\* another's do, a warning is logged, the call does not abort, and every
\* binary file of the annotated polarizations is converted and recorded.
C4_MissingAnnotationSkipped ==
    (/\ PlainConversion
     /\ \E f \in Imgs(last.pre.self.binary_fps) :
           ~Annotated(f, last.pre.self.binary_fps)
     /\ \E f \in Imgs(last.pre.self.binary_fps) :
           Annotated(f, last.pre.self.binary_fps))
    => (/\ last.err = "ok"
        /\ last.log.warn # <<>>
        /\ \A f \in Imgs(last.pre.self.binary_fps) :
              Annotated(f, last.pre.self.binary_fps) => Recorded(f))

\* C5: after a successful binary_to_tiffs on a scene that held no results,
\* images has one entry per non-annotation file of binary_fps, and every
\* converted file's result is among them.
C5_OneResultPerFile ==
    (/\ PlainConversion
     /\ last.err = "ok"
     /\ DOMAIN last.pre.self.images = {})
    => (/\ Cardinality(DOMAIN Self.images) = Cardinality(Imgs(Self.binary_fps))
        /\ \A f \in Imgs(Self.binary_fps) : Recorded(f))

\* C6: with no explicit ann_fp, the annotation handed to the converter with
\* file f is an annotation file of the scene whose file name carries the
\* polarization of f's file name.
C6_AnnotationMatchesFile ==
    PlainConversion
    => \A c \in Convs :
          /\ c.ann \in Anns(Self.binary_fps)
          /\ PolsOf(basename(c.f)) \cap PolsOf(basename(c.ann)) # {}

\* The filter the constructor is to store for an argument pols.
ExpectedPols(pols) ==
    IF Falsy(pols) THEN pols ELSE [i \in 1..Len(pols) |-> Upper(pols[i])]

BadPols(pols) ==
    /\ ~Falsy(pols)
    /\ \E i \in 1..Len(pols) : Upper(pols[i]) \notin {"VV", "VH", "HV", "HH"}

\* The file names of a list of paths.
Names(fps) == [i \in 1..Len(fps) |-> basename(fps[i])]

\* C7: the constructor raises ValueError exactly when pols is non-empty and
\* some element, upper-cased, is no polarization; otherwise the scene's
\* filter is the upper-cased list, and that filter is what every call of the
\* unzip collaborator is given.  With pols None or empty there is no error
\* and no filter: an unzip extracts the whole archive.
C7_PolarizationFilter ==
    /\ last.op = "init" =>
          /\ (last.err = "ValueError") <=> BadPols(last.args.pols)
          /\ (last.err = "ok") <=> ~BadPols(last.args.pols)
    /\ \A s \in Scenes :
          scn[s].status = "ok" =>
             /\ scn[s].pols = ExpectedPols(scn[s].pols_given)
             /\ Falsy(scn[s].pols_given) => Falsy(scn[s].pols)
    /\ \A i \in 1..Len(last.log.unz) :
          last.log.unz[i].pols = ExpectedPols(Self.pols_given)
    /\ (last.op = "unzip" /\ last.err = "ok" /\ Falsy(Self.pols_given))
          => Names(Self.binary_fps) \in Archives

\* A scene built with pols = ['hh'] has unzipped with the filter ['HH'].
C7_Witness ==
    /\ last.op = "unzip" /\ last.err = "ok"
    /\ Self.pols_given = <<"hh">>
    /\ last.log.unz = <<[src |-> Self.zipped_fp,
                         dir |-> join(Self.tmp_dir, <<"bin_imgs", "/">>),
                         pols |-> <<"HH">>]>>
    /\ Self.binary_fps # <<>>

\* C8: an entry of images holds an array exactly when the scene was built
\* with low_ram false; every entry holds description, out_fp and type, and
\* its type is the key it is stored under.
C8_LowRamKeepsNoArray ==
    \A s \in Scenes :
        \A k \in DOMAIN scn[s].images :
            LET e == scn[s].images[k]
            IN  /\ ("array" \in DOMAIN e) <=> ~scn[s].low_ram
                /\ {"description", "out_fp", "type"} \subseteq DOMAIN e
                /\ e.type = k

\* A low_ram scene has converted two products.
C8_Witness ==
    /\ last.op = "binary_to_tiffs" /\ last.err = "ok"
    /\ Self.low_ram
    /\ Cardinality(DOMAIN Self.images) = 2
    /\ Len(last.log.conv) = 2

\* C9: no caller can permit overwriting, so binary_to_tiffs overwrites no
\* raster that exists: a conversion onto an existing output fails with
\* FileExistsError and leaves the file as it was.
C9_NoOverwriteUnlessPermitted ==
    PlainConversion =>
       /\ last.log.over = {}
       /\ (\E c \in Convs : c.out \in last.pre.fs) => last.err = "FileExistsError"

\* C10: a scene built without a clean argument erases nothing; files are
\* removed only for a caller who passed clean=True.
C10_DefaultCleanKeepsFiles ==
    last.log.removed # {} => (Self.clean_given /\ Self.clean)

\* The converter call the loop of the last binary_to_tiffs() ended with.
LastConv == last.log.conv[Len(last.log.conv)]

\* Converter call c was bound to fail: its binary file is unreadable, or its
\* binary or annotation file was not on disk.
FailedConv(c) ==
    \/ basename(c.f) \in Corrupt
    \/ c.f \notin last.pre.fs
    \/ c.ann \notin last.pre.fs

\* The output path kept under each key of images.
OutFps(images) == [k \in DOMAIN images |-> images[k].out_fp]

\* outs after the conversions convs were recorded, in order.
RECURSIVE OutsAfter(_, _)
OutsAfter(outs, convs) ==
    IF convs = <<>> THEN outs
    ELSE OutsAfter(DictSet(outs, SplitPenult(basename(Head(convs).f)), Head(convs).out),
                   Tail(convs))

\* C11: when the converter fails on a file, binary_to_tiffs() raises the
\* failure and converts no further file; images holds what the conversions
\* before the failing one recorded and nothing for the failing file, whose
\* raster is not written; nothing is removed from disk, clean = True or not.
C11_ConverterFailureSurfaced ==
    (/\ last.op = "binary_to_tiffs"
     /\ \E i \in 1..Len(last.log.conv) : FailedConv(last.log.conv[i]))
    => (/\ last.err \in {"SizeMismatchError", "FileNotFoundError"}
        /\ \A i \in 1..Len(last.log.conv) - 1 : ~FailedConv(last.log.conv[i])
        /\ OutFps(Self.images) =
               OutsAfter(OutFps(last.pre.self.images),
                         SubSeq(last.log.conv, 1, Len(last.log.conv) - 1))
        /\ \A k \in DOMAIN Self.images \cap DOMAIN last.pre.self.images :
               Self.images[k].out_fp = last.pre.self.images[k].out_fp
               => Self.images[k] = last.pre.self.images[k]
        /\ LastConv.out \in fs => LastConv.out \in last.pre.fs
        /\ last.log.removed = {}
        /\ last.pre.fs \subseteq fs)

\* A scene with clean = True converted one file, failed on the second, kept
\* the first file's entry and its temporary directory.
C11_Witness ==
    /\ last.op = "binary_to_tiffs"
    /\ Self.clean
    /\ Len(last.log.conv) = 2
    /\ last.err = "SizeMismatchError"
    /\ basename(LastConv.f) = HHhgt
    /\ last.pre.self.images = EmptyDict
    /\ DOMAIN Self.images = {<<"unw">>}
    /\ Exists(fs, Self.tmp_dir)

\* The methods url_to_tiffs() runs, in order.
UrlToTiffsSteps == <<"download", "unzip", "binary_to_tiffs">>

\* C12: url_to_tiffs() runs download(), unzip() and binary_to_tiffs() once
\* each in that order and stops at the first that raises; after all three
\* returned it writes one summary file into the output directory, which
\* still exists with clean True or False, and the summary describes the
\* annotation record of an entry of images; when the conversion produced no
\* entries, no summary is written and no error is raised.
C12_UrlToTiffsSummary ==
    last.op = "url_to_tiffs" =>
        /\ \E n \in 0..3 : last.log.steps = SubSeq(UrlToTiffsSteps, 1, n)
        /\ last.log.steps # UrlToTiffsSteps => last.err # "ok" /\ last.log.csv = <<>>
        /\ (last.log.steps = UrlToTiffsSteps /\ DOMAIN Self.images # {}) =>
              /\ last.err = "ok"
              /\ Exists(fs, Self.out_dir)
              /\ Len(last.log.csv) = 1
              /\ dirname(last.log.csv[1].fp) = Self.out_dir
              /\ last.log.csv[1].fp \in fs
              /\ \E k \in DOMAIN Self.images :
                     last.log.csv[1].desc = Self.images[k].description
        /\ (last.log.steps = UrlToTiffsSteps /\ DOMAIN Self.images = {}) =>
              last.err = "ok" /\ last.log.csv = <<>>

\* Path fps[i] is an annotation path that polarization pol occurs in.
Candidate(fps, i, pol) == IsAnn(fps[i]) /\ Contains(fps[i], <<pol>>)

\* The polarization binary_to_tiffs reads from a file name: the first of
\* POLS that occurs in it.
FirstPol(f, k) ==
    /\ Contains(basename(f), <<POLS[k]>>)
    /\ \A j \in 1..(k - 1) : ~Contains(basename(f), <<POLS[j]>>)

\* Annotation a is the first path of the list fps that is a candidate for
\* the polarization of file f.
FirstCandidate(fps, f, a) ==
    \E k \in 1..Len(POLS), i \in 1..Len(fps) :
        /\ FirstPol(f, k)
        /\ fps[i] = a
        /\ Candidate(fps, i, POLS[k])
        /\ \A j \in 1..(i - 1) : ~Candidate(fps, j, POLS[k])

\* Scene s holds a file list with several annotation files, all on disk,
\* and its next binary_to_tiffs() converts a file.
SeveralAnnotations(s) ==
    /\ Callable(s)
    /\ Cardinality(Anns(scn[s].binary_fps)) >= 2
    /\ Imgs(scn[s].binary_fps) # {}
    /\ Range(scn[s].binary_fps) \subseteq fs

\* The worlds a binary_to_tiffs() of scene s with no argument can end in.
Outcomes(s) == {binary_to_tiffs(World(scn[s], fs), None, None, <<>>)}

\* The next binary_to_tiffs() of scene s can convert file f with annotation a.
CanPair(s, f, a) ==
    \E w \in Outcomes(s) :
        \E i \in 1..Len(w.log.conv) :
            w.log.conv[i].f = f /\ w.log.conv[i].ann = a

TmpDirMade ==
    /\ Self.tmp_dir = Self.work_dir \o <<"/">> \o last.args.sub_dir \o Self.pair_name
    /\ Exists(fs, Self.tmp_dir)

\* download() returned: zipped_fp is the zip the collaborator was asked for
\* once, a file of the temporary directory.
ZipDownloaded ==
    /\ Len(last.log.dl) = 1
    /\ last.log.dl[1] = [url |-> Self.url, dir |-> Self.tmp_dir]
    /\ Self.zipped_fp # None
    /\ Self.zipped_fp \in fs
    /\ dirname(Self.zipped_fp) = Self.tmp_dir
    /\ SplitLast(Self.zipped_fp) = <<"zip">>

C18_ShowNeverFails ==
    (/\ last.op = "show"
     /\ last.pre.self.out_dir # None
     /\ DOMAIN last.pre.self.images # {}) =>
        /\ last.err = "ok"
        /\ Self = last.pre.self /\ fs = last.pre.fs
        /\ IF last.args.i \in DOMAIN Self.images
           THEN Len(last.log.shown) = 1
           ELSE last.log.shown = <<>>

\* C15: binary_to_tiffs() with an explicit ann_fp (and no binary_dir) on a
\* scene that holds binary files completes, and every binary file of the
\* scene is converted with exactly that annotation file.
C15_ExplicitAnnotationUsed ==
    (/\ last.op = "binary_to_tiffs"
     /\ Falsy(last.args.binary_dir)
     /\ ~Falsy(last.args.ann_fp)
     /\ last.args.ann_fp \in last.pre.fs
     /\ Imgs(last.pre.self.binary_fps) # {}
     /\ Range(last.pre.self.binary_fps) \subseteq last.pre.fs)
    => (/\ last.err = "ok"
        /\ \A f \in Imgs(last.pre.self.binary_fps) : \E c \in Convs : c.f = f
        /\ \A c \in Convs : c.ann = last.args.ann_fp)

\* Path q is a file of directory d.
Inside(q, d) == q # Norm(d) /\ dirname(q) = Norm(d)

\* C16: binary_to_tiffs() with a binary_dir (and no ann_fp) hands the
\* converter every binary file of that directory, and every file and every
\* annotation file the converter is handed is a path inside binary_dir, on
\* unzipped and never-downloaded scenes alike.
C16_BinaryDirPaths ==
    (/\ last.op = "binary_to_tiffs"
     /\ ~Falsy(last.args.binary_dir)
     /\ Falsy(last.args.ann_fp)
     /\ Exists(last.pre.fs, last.args.binary_dir))
    => (/\ \A q \in last.pre.fs :
              (Inside(q, last.args.binary_dir) /\ ~IsAnn(basename(q)))
              => \E c \in Convs : c.f = q
        /\ \A c \in Convs :
              /\ Inside(c.f, last.args.binary_dir) /\ c.f \in last.pre.fs
              /\ Inside(c.ann, last.args.binary_dir) /\ c.ann \in last.pre.fs)

\* What was on disk when binary_to_tiffs() reached its clean-up.
BeforeClean == last.pre.fs \cup last.log.made \cup {c.out : c \in Convs}

\* C17: a binary_to_tiffs() that converted files and returns removes, with
\* clean = True, the scene's temporary directory and nothing else, whatever
\* sub_dir download() was given, the empty one included: the output
\* directory and the rasters written stay; with clean = False it removes
\* nothing.
C17_CleanRemovesOnlyTmpDir ==
    (last.op = "binary_to_tiffs" /\ last.err = "ok" /\ last.log.conv # <<>>) =>
        IF Self.clean
        THEN /\ last.log.removed = Tree(BeforeClean, Self.tmp_dir)
             /\ Exists(fs, Self.out_dir)
             /\ \A c \in Convs : c.out \in fs
        ELSE last.log.removed = {} /\ last.pre.fs \subseteq fs

====
